---- MODULE Spec2Model ----
(***************************************************************************)
(* Model of src/shader.rs: the ShaderProgram wrapper (new, activate,       *)
(* deactivate, reload), the source loader read_from_file and the           *)
(* compile/link engine (create_shader, create_shader_program) running      *)
(* against an OpenGL driver context.                                       *)
(*                                                                         *)
(* The driver is the environment: whether an object can be created, which  *)
(* status it reports for a compile or a link, and whether the bytes of the *)
(* 511-byte diagnostic buffer (left uninitialised by set_len) decode as    *)
(* text are chosen nondeterministically at the call that asks for them.    *)
(* The file system is the environment too: whether a file can be read and  *)
(* what it holds is chosen at each read.                                   *)
(***************************************************************************)
EXTENDS Integers, Sequences, FiniteSets, TLC

\* ---------------------------------------------------------------- bounds
\* Number of builds (the one of new plus those of reload) a run may start.
MaxBuilds == 3

\* ------------------------------------------------------ program constants
GL_FALSE == 0
GL_TRUE == 1
\* Value of a local of create_shader_program that no `let` has bound yet.
Unbound == -1

\* Status values a driver may store through GetShaderiv / GetProgramiv.
StatusValues == {GL_FALSE, GL_TRUE, 2}

\* Paths a caller may hand to ShaderProgram::new.
VertexPaths == {"a.vert", "b.vert"}
FragmentPaths == {"a.frag", "b.frag"}

\* What a successfully read file holds, as far as the code can tell apart:
\* text without a NUL byte, or text with an interior NUL byte (CString::new
\* rejects the latter).
SourceTexts == {"plain", "nul"}

VARIABLES
    pc,                 \* position of the single thread of control
    op,                 \* public operation in progress or last run
    exists,             \* TRUE once new has returned Ok(ShaderProgram)
    id,                 \* ShaderProgram.id (Cell<GLuint>)
    vertex_filename,    \* ShaderProgram.vertex_filename
    fragment_filename,  \* ShaderProgram.fragment_filename
    arg_v, arg_f,       \* the paths the operation in progress reads
    vertex_src,         \* local of new / reload
    fragment_src,       \* local of new / reload
    vertex_shader,      \* local of create_shader_program
    fragment_shader,    \* local of create_shader_program
    shader_program,     \* local of create_shader_program
    result,             \* value create_shader_program returned to its caller
    new_result,         \* value ShaderProgram::new returned to its caller
    shaders,            \* driver: shader objects, by name
    programs,           \* driver: program objects, by name
    current,            \* driver: the current program (UseProgram)
    nextName,           \* driver: next unused object name
    builds,             \* number of builds started
    old_id,             \* id when the reload in progress (or last run) began
    calls               \* driver and I/O calls of the operation in progress

vars == <<pc, op, exists, id, vertex_filename, fragment_filename, arg_v, arg_f,
          vertex_src, fragment_src, vertex_shader, fragment_shader,
          shader_program, result, new_result, shaders, programs, current,
          nextName, builds, old_id, calls>>

object == <<exists, id, vertex_filename, fragment_filename>>
locals == <<vertex_shader, fragment_shader, shader_program>>
driver == <<shaders, programs, current, nextName>>

\* ------------------------------------------------------------- helpers
Put(f, k, v) == [x \in DOMAIN f \cup {k} |-> IF x = k THEN v ELSE f[x]]

None == [kind |-> "None", handle |-> 0, tag |-> "", log |-> 0]
Ok(h) == [kind |-> "Ok", handle |-> h, tag |-> "", log |-> 0]
\* An error value is the formatted message: its tag and the diagnostic text,
\* the latter identified by the driver object whose log was read.
Err(t, h) == [kind |-> "Err", handle |-> 0, tag |-> t, log |-> h]
\* An expect/unwrap that failed: the thread panics, nothing is returned.
Panic == [kind |-> "Panic", handle |-> 0, tag |-> "", log |-> 0]

\* One driver or I/O call: its name, the object name it was given or
\* returned, and its text arguments.
Ev(c, h, s) == [call |-> c, h |-> h, s |-> s, t |-> ""]
Ev2(c, s, t) == [call |-> c, h |-> 0, s |-> s, t |-> t]

Called(c) == \E i \in 1..Len(calls) : calls[i].call = c

\* Names the driver may hand out for a new object: a fresh one, or 0 when it
\* cannot create the object.
NewNames == {0, nextName}

Init ==
    /\ pc = "idle"
    /\ op = "none"
    /\ exists = FALSE
    /\ id = 0
    /\ vertex_filename = ""
    /\ fragment_filename = ""
    /\ arg_v = ""
    /\ arg_f = ""
    /\ vertex_src = ""
    /\ fragment_src = ""
    /\ vertex_shader = Unbound
    /\ fragment_shader = Unbound
    /\ shader_program = Unbound
    /\ result = None
    /\ new_result = None
    /\ shaders = <<>>
    /\ programs = <<>>
    /\ current = 0
    /\ nextName = 1
    /\ builds = 0
    /\ old_id = 0
    /\ calls = <<>>

\* ------------------------------------------------- the code's decisions
\* The stage tag create_shader formats into its error message.
ErrorTag(shader_type) == "VERTEX"

\* The tag create_shader_program formats into its link error message.
LinkErrorTag == "PROGRAM"

QueriedStatusInitTrue(h, s) == IF h # 0 THEN s ELSE GL_TRUE

\* `let mut success = gl::FALSE` followed by Get{Shader,Program}iv: the
\* driver stores the status s only for an object that exists (for the name 0
\* it raises GL_INVALID_VALUE and stores nothing).
QueriedStatus(h, s) == IF h # 0 THEN s ELSE GL_FALSE

SucceededUnlessFalse(success) == success # GL_FALSE

\* `if success != gl::TRUE as GLint { ... return Err }`
Succeeded(success) == success = GL_TRUE

DecodedErrorLossy(tag, h, valid) == Err(tag, h)

\* str::from_utf8(&info_log).expect(..) / .unwrap(): an error value when the
\* buffer decodes, a panic when it does not.
DecodedError(tag, h, valid) == IF valid THEN Err(tag, h) ELSE Panic

\* create_shader after gl::CreateShader returned h: the value it returns.
CreateShaderResult(src, shader_type, h, s, valid) ==
    IF src = "nul" THEN Panic
    ELSE IF Succeeded(QueriedStatus(h, s)) THEN Ok(h)
    ELSE DecodedError(ErrorTag(shader_type), h, valid)

\* The driver calls create_shader makes, in order.
CreateShaderCalls(src, shader_type, h, s, valid) ==
    <<Ev("CreateShader", h, shader_type)>>
    \o (IF src = "nul" THEN <<>>
        ELSE <<Ev("ShaderSource", h, shader_type),
               Ev("CompileShader", h, shader_type),
               Ev("GetShaderiv", h, shader_type)>>
             \o (IF Succeeded(QueriedStatus(h, s)) THEN <<>>
                 ELSE <<Ev("GetShaderInfoLog", h, shader_type),
                        Ev("from_utf8", h, IF valid THEN "ok" ELSE "invalid")>>))

CreateShaderObjectsScoped(src, shader_type, h, s) ==
    IF h = 0 THEN shaders
    ELSE Put(shaders, h, [type |-> shader_type,
                          status |-> IF src = "nul" THEN GL_FALSE ELSE s,
                          deleted |-> (src = "nul" \/ s # GL_TRUE)])

\* The driver's shader objects after create_shader: a created object holds
\* the compile status the driver will report (GL_FALSE while uncompiled).
CreateShaderObjects(src, shader_type, h, s) ==
    IF h = 0 THEN shaders
    ELSE Put(shaders, h, [type |-> shader_type,
                          status |-> IF src = "nul" THEN GL_FALSE ELSE s,
                          deleted |-> FALSE])

ProgramNameInPlace(stored, created) == IF stored # 0 THEN stored ELSE created

\* `let shader_program = gl::CreateProgram()`: the program object the build
\* links is the one the driver just created, whatever handle is stored.
ProgramName(stored, created) == created

DeleteShadersVertexOnly(vs, fs) ==
    [h \in DOMAIN shaders |->
        IF h = vs THEN [shaders[h] EXCEPT !.deleted = TRUE] ELSE shaders[h]]

\* gl::DeleteShader on the two stages after a successful link.
DeleteShaders(vs, fs) ==
    [h \in DOMAIN shaders |->
        IF h \in {vs, fs} THEN [shaders[h] EXCEPT !.deleted = TRUE]
        ELSE shaders[h]]

ShadersAfterLinkScoped(ok, vs, fs) == IF ok THEN shaders ELSE DeleteShaders(vs, fs)

\* The link-failure return of create_shader_program: it returns the error
\* with no DeleteShader call, so the shader objects stay as they are.
ShadersAfterLink(ok, vs, fs) == shaders

ProgramsAfterLinkReleased(ok, p, linked) ==
    IF ok THEN linked ELSE [h \in DOMAIN linked \ {p} |-> linked[h]]

\* The link-failure return of create_shader_program makes no
\* gl::DeleteProgram call (the code has none anywhere): the program object
\* stays in the driver as the link left it.
ProgramsAfterLink(ok, p, linked) == linked

CurrentAfterLinkBinds(cur, p) == p

\* create_shader_program makes no gl::UseProgram call: the driver's current
\* program after the link is the one from before.
CurrentAfterLink(cur, p) == cur

NewOnResultConstructs(r) == "construct"

\* `create_shader_program(..)?` in new: the error is returned to the caller.
NewOnResult(r) == IF r.kind = "Ok" THEN "construct" ELSE "return_err"

ReloadOnResultAlwaysSet(r) == "set"

ReloadOnResultReturns(r) == IF r.kind = "Ok" THEN "set" ELSE "return"

\* `create_shader_program(..).expect(..)` in reload: the error panics.
ReloadOnResult(r) == IF r.kind = "Ok" THEN "set" ELSE "panic"

IdAfterReloadKept(stored, built) == stored

\* `self.id.set(id)`
IdAfterReload(stored, built) == built

ReadOutcomeLenient(content) == "text"

\* read_from_file: File::open(..).expect(..) and read_to_string(..).expect(..)
\* panic when the file cannot be opened or read; otherwise the text is
\* returned.
ReadOutcome(content) == IF content = "unreadable" THEN "panic" ELSE "text"

ReloadPathsSwapped(vf, ff) == <<ff, vf>>

\* reload reads `&self.vertex_filename`, then `&self.fragment_filename`.
ReloadPaths(vf, ff) == <<vf, ff>>

ActivateProgramNull(stored) == 0

\* `gl::UseProgram(self.id.get())` in activate.
ActivateProgram(stored) == stored

\* `gl::UseProgram(0)` in deactivate.
DeactivateProgram == 0

\* ------------------------------------------------------------- actions
\* ShaderProgram::new(vertex_filename, fragment_filename), up to its reads.
NewStart ==
    /\ pc = "idle"
    /\ ~exists
    /\ new_result = None
    /\ builds < MaxBuilds
    /\ \E v \in VertexPaths, f \in FragmentPaths :
        /\ arg_v' = v
        /\ arg_f' = f
    /\ op' = "new"
    /\ pc' = "read_v"
    /\ builds' = builds + 1
    /\ calls' = <<>>
    /\ vertex_src' = ""
    /\ fragment_src' = ""
    /\ vertex_shader' = Unbound
    /\ fragment_shader' = Unbound
    /\ shader_program' = Unbound
    /\ result' = None
    /\ UNCHANGED <<object, driver, new_result, old_id>>

\* ShaderProgram::reload(&self), up to its reads: the println!.
ReloadStart ==
    /\ pc = "idle"
    /\ exists
    /\ builds < MaxBuilds
    /\ op' = "reload"
    /\ pc' = "read_v"
    /\ builds' = builds + 1
    /\ arg_v' = ReloadPaths(vertex_filename, fragment_filename)[1]
    /\ arg_f' = ReloadPaths(vertex_filename, fragment_filename)[2]
    /\ old_id' = id
    /\ calls' = <<Ev2("println", vertex_filename, fragment_filename)>>
    /\ vertex_src' = ""
    /\ fragment_src' = ""
    /\ vertex_shader' = Unbound
    /\ fragment_shader' = Unbound
    /\ shader_program' = Unbound
    /\ result' = None
    /\ UNCHANGED <<object, driver, new_result>>

\* read_from_file(vertex path): File::open / read_to_string, each .expect.
ReadVertex ==
    /\ pc = "read_v"
    /\ \E content \in SourceTexts \cup {"unreadable"} :
        /\ calls' = Append(calls, Ev2("read_from_file", arg_v, content))
        /\ IF ReadOutcome(content) = "panic"
           THEN pc' = "crashed" /\ UNCHANGED vertex_src
           ELSE pc' = "read_f" /\ vertex_src' = content
    /\ UNCHANGED <<op, object, arg_v, arg_f, fragment_src, locals, result,
                   new_result, driver, builds, old_id>>

\* read_from_file(fragment path).
ReadFragment ==
    /\ pc = "read_f"
    /\ \E content \in SourceTexts \cup {"unreadable"} :
        /\ calls' = Append(calls, Ev2("read_from_file", arg_f, content))
        /\ IF ReadOutcome(content) = "panic"
           THEN pc' = "crashed" /\ UNCHANGED fragment_src
           ELSE pc' = "compile_v" /\ fragment_src' = content
    /\ UNCHANGED <<op, object, arg_v, arg_f, vertex_src, locals, result,
                   new_result, driver, builds, old_id>>

\* create_shader_program: `create_shader(vertex_src, gl::VERTEX_SHADER)?`
CompileVertex ==
    /\ pc = "compile_v"
    /\ \E h \in NewNames, s \in StatusValues, valid \in BOOLEAN :
        LET r == CreateShaderResult(vertex_src, "VERTEX", h, s, valid) IN
        /\ shaders' = CreateShaderObjects(vertex_src, "VERTEX", h, s)
        /\ nextName' = IF h = 0 THEN nextName ELSE nextName + 1
        /\ calls' = calls
                     \o CreateShaderCalls(vertex_src, "VERTEX", h, s, valid)
        /\ vertex_shader' = IF r.kind = "Ok" THEN r.handle ELSE vertex_shader
        /\ result' = IF r.kind = "Err" THEN r ELSE result
        /\ pc' = CASE r.kind = "Ok" -> "compile_f"
                   [] r.kind = "Err" -> "ret"
                   [] OTHER -> "crashed"
    /\ UNCHANGED <<op, object, arg_v, arg_f, vertex_src, fragment_src,
                   fragment_shader, shader_program, new_result, programs,
                   current, builds, old_id>>

\* create_shader_program: `create_shader(fragment_src, gl::FRAGMENT_SHADER)?`
CompileFragment ==
    /\ pc = "compile_f"
    /\ \E h \in NewNames, s \in StatusValues, valid \in BOOLEAN :
        LET r == CreateShaderResult(fragment_src, "FRAGMENT", h, s, valid) IN
        /\ shaders' = CreateShaderObjects(fragment_src, "FRAGMENT", h, s)
        /\ nextName' = IF h = 0 THEN nextName ELSE nextName + 1
        /\ calls' = calls
                     \o CreateShaderCalls(fragment_src, "FRAGMENT", h, s, valid)
        /\ fragment_shader' = IF r.kind = "Ok" THEN r.handle ELSE fragment_shader
        /\ result' = IF r.kind = "Err" THEN r ELSE result
        /\ pc' = CASE r.kind = "Ok" -> "link"
                   [] r.kind = "Err" -> "ret"
                   [] OTHER -> "crashed"
    /\ UNCHANGED <<op, object, arg_v, arg_f, vertex_src, fragment_src,
                   vertex_shader, shader_program, new_result, programs,
                   current, builds, old_id>>

\* create_shader_program: CreateProgram, AttachShader x 2, LinkProgram,
\* GetProgramiv and, when the status is not TRUE, the error return.
Link ==
    /\ pc = "link"
    /\ \E created \in NewNames, s \in StatusValues, valid \in BOOLEAN :
        LET p == ProgramName(id, created)
            ok == Succeeded(QueriedStatus(p, s))
            r == IF ok THEN Ok(p) ELSE DecodedError(LinkErrorTag, p, valid)
        IN
        /\ shader_program' = p
        /\ shaders' = ShadersAfterLink(ok, vertex_shader, fragment_shader)
        /\ current' = CurrentAfterLink(current, p)
        /\ programs' = ProgramsAfterLink(ok, p,
                          IF p = 0 THEN programs
                          ELSE Put(programs, p,
                                   [status |-> s,
                                    attached |-> {vertex_shader,
                                                  fragment_shader}]))
        /\ nextName' = IF p = nextName THEN nextName + 1 ELSE nextName
        /\ calls' = calls
             \o (IF p = created THEN <<Ev("CreateProgram", p, "")>> ELSE <<>>)
             \o <<Ev("AttachShader", vertex_shader, "VERTEX"),
                  Ev("AttachShader", fragment_shader, "FRAGMENT"),
                  Ev("LinkProgram", p, ""),
                  Ev("GetProgramiv", p, "")>>
             \o (IF ok THEN <<>>
                 ELSE <<Ev("GetProgramInfoLog", p, ""),
                        Ev("from_utf8", p, IF valid THEN "ok" ELSE "invalid")>>)
        /\ result' = IF r.kind = "Err" THEN r ELSE result
        /\ pc' = CASE r.kind = "Ok" -> "cleanup"
                   [] r.kind = "Err" -> "ret"
                   [] OTHER -> "crashed"
    /\ UNCHANGED <<op, object, arg_v, arg_f, vertex_src, fragment_src,
                   vertex_shader, fragment_shader, new_result, builds,
                   old_id>>

\* create_shader_program: DeleteShader x 2 and `Ok(shader_program)`.
Cleanup ==
    /\ pc = "cleanup"
    /\ shaders' = DeleteShaders(vertex_shader, fragment_shader)
    /\ calls' = calls \o <<Ev("DeleteShader", vertex_shader, "VERTEX"),
                           Ev("DeleteShader", fragment_shader, "FRAGMENT")>>
    /\ result' = Ok(shader_program)
    /\ pc' = "ret"
    /\ UNCHANGED <<op, object, arg_v, arg_f, vertex_src, fragment_src, locals,
                   new_result, programs, current, nextName, builds, old_id>>

\* ShaderProgram::new after create_shader_program returned.
NewReturn ==
    /\ pc = "ret"
    /\ op = "new"
    /\ CASE NewOnResult(result) = "construct" ->
                /\ exists' = TRUE
                /\ id' = result.handle
                /\ vertex_filename' = arg_v
                /\ fragment_filename' = arg_f
                /\ new_result' = result
                /\ pc' = "idle"
         [] OTHER ->
                /\ new_result' = result
                /\ pc' = "idle"
                /\ UNCHANGED object
    /\ UNCHANGED <<op, arg_v, arg_f, vertex_src, fragment_src, locals, result,
                   driver, builds, old_id, calls>>

\* ShaderProgram::reload after create_shader_program returned.
ReloadReturn ==
    /\ pc = "ret"
    /\ op = "reload"
    /\ CASE ReloadOnResult(result) = "set" ->
                /\ id' = IdAfterReload(id, result.handle)
                /\ pc' = "idle"
         [] ReloadOnResult(result) = "panic" ->
                /\ pc' = "crashed"
                /\ UNCHANGED id
         [] OTHER ->
                /\ pc' = "idle"
                /\ UNCHANGED id
    /\ UNCHANGED <<op, exists, vertex_filename, fragment_filename, arg_v,
                   arg_f, vertex_src, fragment_src, locals, result,
                   new_result, driver, builds, old_id, calls>>

\* ShaderProgram::activate(&self)
Activate ==
    /\ pc = "idle"
    /\ exists
    /\ current' = ActivateProgram(id)
    /\ op' = "activate"
    /\ calls' = <<Ev("UseProgram", ActivateProgram(id), "")>>
    /\ UNCHANGED <<pc, object, arg_v, arg_f, vertex_src, fragment_src, locals,
                   result, new_result, shaders, programs, nextName, builds,
                   old_id>>

\* ShaderProgram::deactivate(&self)
Deactivate ==
    /\ pc = "idle"
    /\ exists
    /\ current' = DeactivateProgram
    /\ op' = "deactivate"
    /\ calls' = <<Ev("UseProgram", DeactivateProgram, "")>>
    /\ UNCHANGED <<pc, object, arg_v, arg_f, vertex_src, fragment_src, locals,
                   result, new_result, shaders, programs, nextName, builds,
                   old_id>>

Next ==
    \/ NewStart
    \/ ReloadStart
    \/ ReadVertex
    \/ ReadFragment
    \/ CompileVertex
    \/ CompileFragment
    \/ Link
    \/ Cleanup
    \/ NewReturn
    \/ ReloadReturn
    \/ Activate
    \/ Deactivate

Spec == Init /\ [][Next]_vars

\* ------------------------------------------------- vocabulary of the claims
\* create_shader_program has returned a value that its caller has not yet
\* looked at.
BuildReturned == pc = "ret"

\* The operation in progress asked the driver for the compile status of a
\* stage of this kind, and the driver did not report TRUE (the stage could
\* not be created, or its COMPILE_STATUS is not TRUE).
CompileFailed(kind) ==
    \E i \in 1..Len(calls) :
        /\ calls[i].call = "GetShaderiv"
        /\ calls[i].s = kind
        /\ \/ calls[i].h = 0
           \/ shaders[calls[i].h].status # GL_TRUE

\* ... and the driver reported TRUE.
Compiled(kind) ==
    \E i \in 1..Len(calls) :
        /\ calls[i].call = "GetShaderiv"
        /\ calls[i].s = kind
        /\ calls[i].h # 0
        /\ shaders[calls[i].h].status = GL_TRUE

\* The operation in progress asked for a link status and it was not TRUE.
LinkFailed ==
    \E i \in 1..Len(calls) :
        /\ calls[i].call = "GetProgramiv"
        /\ \/ calls[i].h = 0
           \/ programs[calls[i].h].status # GL_TRUE

RebuildFailed == CompileFailed("VERTEX") \/ CompileFailed("FRAGMENT") \/ LinkFailed

\* The diagnostic buffer read by the operation in progress did not decode.
LogUndecodable ==
    \E i \in 1..Len(calls) :
        calls[i].call = "from_utf8" /\ calls[i].s = "invalid"

\* The name h is a program object of the driver whose link status is TRUE.
\* (No operation of the program deletes a program object.)
LinkedProgram(h) ==
    /\ h # 0
    /\ h \in DOMAIN programs
    /\ programs[h].status = GL_TRUE

\* ------------------------------------------------------------------ C1
\* C1: whenever a build returns after the driver reported the vertex stage
\* compiled and the fragment stage not compiled, the error carries the tag
\* FRAGMENT; in general the tag in a compile error is the kind of the stage
\* whose compilation failed.
C1_TagIsFailedStage ==
    \A kind \in {"VERTEX", "FRAGMENT"} :
        (BuildReturned /\ CompileFailed(kind))
            => (result.kind = "Err" /\ result.tag = kind)

\* ------------------------------------------------------------------ C2
\* C2: while a ShaderProgram exists, its handle is a program object the
\* driver created, whose link status is TRUE; it is never 0.
C2_HandleIsLinkedProgram == exists => LinkedProgram(id)

\* A ShaderProgram whose handle has already been replaced by a reload.
C2_Witness ==
    exists /\ pc = "idle" /\ op = "deactivate" /\ builds >= 2 /\ id # old_id

\* ------------------------------------------------------------------ C3
\* C3 as stated: a failed rebuild makes Reload terminate the process, and
\* the same failure makes Construct return an error value without
\* terminating.
C3_ConstructNeverTerminates ==
    /\ (op = "reload" /\ RebuildFailed /\ ~BuildReturned) => pc = "crashed"
    /\ (op = "new" /\ RebuildFailed) => pc # "crashed"
    /\ (op = "new" /\ RebuildFailed /\ pc = "idle") => new_result.kind = "Err"

\* C3 amended: a failed rebuild makes Reload terminate the process in every
\* case; it makes Construct return an error value without terminating
\* exactly when the diagnostic log decodes as text, and terminate the
\* process when it does not.
C3_ReloadFailureIsFatal ==
    /\ (op = "reload" /\ RebuildFailed /\ ~BuildReturned) => pc = "crashed"
    /\ (op = "new" /\ RebuildFailed /\ ~LogUndecodable)
          => /\ pc \in {"ret", "idle"}
             /\ result.kind = "Err"
             /\ pc = "idle" => (new_result = result /\ ~exists)
    /\ (op = "new" /\ RebuildFailed /\ LogUndecodable)
          => (pc = "crashed" /\ new_result = None)

\* A reload stopped by its expect on a link error whose log decoded, after a
\* construction that had succeeded.
C3_Witness ==
    /\ op = "reload"
    /\ pc = "crashed"
    /\ LinkFailed
    /\ ~LogUndecodable
    /\ result.kind = "Err"
    /\ new_result.kind = "Ok"

\* ------------------------------------------------------------------ C4
\* C4: from the start of a Reload until its rebuild has succeeded, and so
\* at the point any failure is raised, the stored handle is the one from
\* before the call and that program object is still a linked program of the
\* driver.
C4_FailedReloadKeepsHandle ==
    (op = "reload" /\ ~(pc = "idle" /\ result.kind = "Ok"))
        => (id = old_id /\ LinkedProgram(id))

\* A reload that failed at the link step, with the new program object
\* already created.
C4_Witness ==
    /\ op = "reload"
    /\ pc = "crashed"
    /\ LinkFailed
    /\ shader_program # 0
    /\ shader_program # id

\* ------------------------------------------------------------------ C5
\* C5: after every successful Reload the stored handle is the handle that
\* rebuild returned and differs from the handle stored before; an Activate
\* that follows makes exactly that handle the driver's current program.
C5_ReloadReplacesHandle ==
    (exists /\ pc = "idle" /\ builds >= 2)
        => /\ result.kind = "Ok"
           /\ id = result.handle
           /\ id # old_id
           /\ op = "activate" => current = result.handle

\* An Activate after the second of two consecutive reloads.
C5_Witness ==
    /\ op = "activate"
    /\ builds = 3
    /\ current = id
    /\ id = result.handle
    /\ old_id # 0

\* ------------------------------------------------------------------ C6
\* C6 as stated: a successful Reload relinks the existing program object in
\* place: it creates no program object and the stored handle names the same
\* driver object as before.
C6_ReloadRelinksInPlace ==
    (op = "reload" /\ pc = "idle" /\ result.kind = "Ok")
        => (id = old_id /\ ~Called("CreateProgram"))

\* C6 amended: Reload rebuilds through the build-new-program entry point: a
\* successful Reload creates exactly one new program object, attaches the
\* new stages to it and links it, never touches the program object stored
\* before, and ends referring to the new object.
C6_ReloadBuildsNewProgram ==
    (op = "reload" /\ pc = "idle" /\ result.kind = "Ok")
        => /\ Called("CreateProgram")
           /\ id # old_id
           /\ LinkedProgram(old_id)
           /\ Cardinality(DOMAIN programs) = builds
           /\ programs[id].attached = {vertex_shader, fragment_shader}
           /\ programs[old_id].attached \cap {vertex_shader, fragment_shader} = {}
           /\ \A i \in 1..Len(calls) :
                calls[i].call \in {"CreateProgram", "LinkProgram", "GetProgramiv"}
                    => (calls[i].h = id /\ calls[i].h # old_id)

\* The second successful reload has just returned.
C6_Witness ==
    /\ op = "reload"
    /\ pc = "idle"
    /\ builds = 3
    /\ Called("LinkProgram")
    /\ Cardinality(DOMAIN programs) = 3

\* ------------------------------------------------------------------ C7
\* Whether the operation in progress asked the driver for a stage of a kind,
\* and the name the driver returned for it.
StageRequested(kind) ==
    \E i \in 1..Len(calls) : calls[i].call = "CreateShader" /\ calls[i].s = kind

StageName(kind) ==
    calls[CHOOSE i \in 1..Len(calls) :
            calls[i].call = "CreateShader" /\ calls[i].s = kind].h

\* C7: whatever the driver reports, a build that returns returns exactly one
\* of: the vertex stage's compile error (and then no fragment stage was
\* requested); else the fragment stage's compile error (and then no program
\* was created or linked); else the link error; else the handle of the
\* program it created and linked.
C7_FirstErrorWins ==
    BuildReturned =>
        /\ result.kind \in {"Ok", "Err"}
        /\ CompileFailed("VERTEX") =>
              /\ result = Err(result.tag, StageName("VERTEX"))
              /\ result.tag # LinkErrorTag
              /\ ~StageRequested("FRAGMENT")
              /\ ~Called("CreateProgram")
        /\ (~CompileFailed("VERTEX") /\ CompileFailed("FRAGMENT")) =>
              /\ Compiled("VERTEX")
              /\ result = Err(result.tag, StageName("FRAGMENT"))
              /\ result.tag # LinkErrorTag
              /\ ~Called("CreateProgram")
              /\ ~Called("LinkProgram")
        /\ (~CompileFailed("VERTEX") /\ ~CompileFailed("FRAGMENT") /\ LinkFailed) =>
              /\ Compiled("VERTEX") /\ Compiled("FRAGMENT")
              /\ result = Err(LinkErrorTag, shader_program)
        /\ (~CompileFailed("VERTEX") /\ ~CompileFailed("FRAGMENT") /\ ~LinkFailed) =>
              /\ Compiled("VERTEX") /\ Compiled("FRAGMENT")
              /\ Called("CreateProgram")
              /\ result = Ok(shader_program)
              /\ LinkedProgram(shader_program)

\* The rebuild of a reload returns the fragment stage's error.
C7_Witness ==
    /\ BuildReturned
    /\ op = "reload"
    /\ Compiled("VERTEX")
    /\ CompileFailed("FRAGMENT")
    /\ StageName("FRAGMENT") # 0
    /\ result.log = StageName("FRAGMENT")

\* ------------------------------------------------------------------ C8
\* C8: when the vertex stage fails to compile during Construct, the value
\* Construct returns is a compile error tagged VERTEX, create-program is
\* never called and the driver holds no program object; and a ShaderProgram
\* exists only if Construct returned Ok.
C8_FailedConstructMakesNoObject ==
    /\ (op = "new" /\ CompileFailed("VERTEX")) =>
          /\ ~Called("CreateProgram")
          /\ DOMAIN programs = {}
          /\ ~exists
          /\ BuildReturned => (result.kind = "Err" /\ result.tag = "VERTEX")
          /\ pc = "idle" => (new_result.kind = "Err" /\ new_result.tag = "VERTEX")
    /\ exists => new_result.kind = "Ok"
    /\ (op = "new" /\ pc = "idle" /\ result.kind = "Err") => new_result = result

\* Construct has returned the vertex stage's error.
C8_Witness ==
    /\ op = "new"
    /\ pc = "idle"
    /\ CompileFailed("VERTEX")
    /\ StageName("VERTEX") # 0
    /\ new_result.kind = "Err"
    /\ ~exists

\* ------------------------------------------------------------------ C9
\* C9: when a build returns, every shader stage it created has been deleted,
\* whether the build succeeded or failed.
C9_StagesDeletedOnReturn ==
    BuildReturned =>
        \A i \in 1..Len(calls) :
            (calls[i].call = "CreateShader" /\ calls[i].h # 0)
                => shaders[calls[i].h].deleted

\* ------------------------------------------------------------------ C10
\* C10: when both stages compiled and the link failed, the build returns a
\* link error tagged PROGRAM, and neither stage has been deleted: both are
\* still allocated in the driver.
C10_LinkFailureLeaksStages ==
    (BuildReturned /\ Compiled("VERTEX") /\ Compiled("FRAGMENT") /\ LinkFailed)
        => /\ result.kind = "Err"
           /\ result.tag = "PROGRAM"
           /\ ~Called("DeleteShader")
           /\ vertex_shader # fragment_shader
           /\ \A h \in {vertex_shader, fragment_shader} :
                h \in DOMAIN shaders /\ ~shaders[h].deleted

\* A build returns the link error of a program object the driver created.
C10_Witness ==
    /\ BuildReturned
    /\ Compiled("VERTEX")
    /\ Compiled("FRAGMENT")
    /\ LinkFailed
    /\ shader_program # 0
    /\ result.tag = "PROGRAM"

\* ------------------------------------------------------------------ C11
\* Positions in the calls of the operation in progress of the calls named c
\* on the object h.
CallsOf(c, h) ==
    {i \in 1..Len(calls) : calls[i].call = c /\ calls[i].h = h}

\* C11: when the driver reports TRUE for the vertex compile, the fragment
\* compile and the link, the build returns the handle of the program object
\* it created and linked in this build; each of its two stages has been
\* deleted by exactly one delete-stage call, made after the link-status
\* query; and an Activate that follows makes that handle the driver's current
\* program.
C11_SuccessfulBuild ==
    /\ (BuildReturned /\ Compiled("VERTEX") /\ Compiled("FRAGMENT")
          /\ Called("GetProgramiv") /\ ~LinkFailed)
        => /\ result = Ok(shader_program)
           /\ LinkedProgram(result.handle)
           /\ Cardinality(CallsOf("CreateProgram", result.handle)) = 1
           /\ Cardinality(CallsOf("GetProgramiv", result.handle)) = 1
           /\ StageName("VERTEX") # StageName("FRAGMENT")
           /\ \A kind \in {"VERTEX", "FRAGMENT"} :
                /\ shaders[StageName(kind)].deleted
                /\ Cardinality(CallsOf("DeleteShader", StageName(kind))) = 1
                /\ \A d \in CallsOf("DeleteShader", StageName(kind)) :
                     \A q \in CallsOf("GetProgramiv", result.handle) : q < d
    /\ (op = "activate")
        => (result.kind = "Ok" /\ current = result.handle)

\* Activate right after a Construct whose build succeeded.
C11_Witness ==
    /\ op = "activate"
    /\ builds = 1
    /\ new_result = result
    /\ current = result.handle
    /\ \A h \in DOMAIN shaders : shaders[h].deleted

\* ------------------------------------------------------------------ C12
\* C12: Activate sets the driver's current program to the stored handle and
\* Deactivate sets it to 0; neither changes the stored handle, the paths or
\* the driver's objects, and neither fails. A second Activate right after an
\* Activate, and a second Deactivate right after a Deactivate, changes
\* nothing at all.
C12_ActivateDeactivate ==
    /\ [](op = "activate" => (current = id /\ pc = "idle"))
    /\ [](op = "deactivate" => (current = 0 /\ pc = "idle"))
    /\ [][(pc = "idle" /\ pc' = "idle")
            => /\ op' \in {"activate", "deactivate"}
               /\ UNCHANGED <<object, shaders, programs, nextName>>]_vars
    /\ [][(op = "activate" /\ op' = "activate") => UNCHANGED vars]_vars
    /\ [][(op = "deactivate" /\ op' = "deactivate") => UNCHANGED vars]_vars

\* Activate has run on a freshly constructed ShaderProgram.
C12_Witness ==
    /\ op = "activate"
    /\ pc = "idle"
    /\ builds = 1
    /\ current = id
    /\ calls = <<Ev("UseProgram", id, "")>>

\* ------------------------------------------------------------------ C13
\* Positions of the reads of a path, and whether the operation in progress
\* met a file it could not open or read.
ReadsOf(path) ==
    {i \in 1..Len(calls) : calls[i].call = "read_from_file" /\ calls[i].s = path}

FileUnreadable ==
    \E i \in 1..Len(calls) :
        calls[i].call = "read_from_file" /\ calls[i].t = "unreadable"

DriverCalls ==
    {i \in 1..Len(calls) : calls[i].call \notin {"println", "read_from_file"}}

\* C13: when either source file cannot be opened or read, Construct and
\* Reload terminate the process: nothing is returned (Construct returns no
\* build error and no ShaderProgram), and no driver call has been made, so no
\* shader stage or program object was created. The vertex file is read
\* before the fragment file, and both before any driver call.
C13_UnreadableFileIsFatal ==
    /\ FileUnreadable
        => /\ pc = "crashed"
           /\ DriverCalls = {}
           /\ result = None
           /\ op = "new" => (new_result = None /\ ~exists
                             /\ DOMAIN shaders = {} /\ DOMAIN programs = {})
           /\ op = "reload" => (id = old_id
                                /\ Cardinality(DOMAIN programs) = builds - 1)
    /\ op \in {"new", "reload"}
        => /\ Cardinality(ReadsOf(arg_v)) <= 1
           /\ Cardinality(ReadsOf(arg_f)) <= 1
           /\ \A f \in ReadsOf(arg_f) :
                \E v \in ReadsOf(arg_v) : v < f /\ calls[v].t # "unreadable"
           /\ \A d \in DriverCalls :
                \E f \in ReadsOf(arg_f) : f < d /\ calls[f].t # "unreadable"

\* A reload stopped at its fragment file, after reading its vertex file.
C13_Witness ==
    /\ op = "reload"
    /\ pc = "crashed"
    /\ FileUnreadable
    /\ ReadsOf(arg_f) # {}
    /\ vertex_src = "plain"

\* ------------------------------------------------------------------ C14
\* C14: no step of Construct, successful or not, changes the driver's
\* current program or calls use-program; the program a successful Construct
\* returns is therefore not current when Construct returns.
C14_ConstructBindsNothing ==
    /\ [][op' = "new" => current' = current]_vars
    /\ [](op = "new" => (~Called("UseProgram") /\ (exists => current # id)))

\* Construct has returned a ShaderProgram; nothing is bound.
C14_Witness ==
    /\ op = "new"
    /\ pc = "idle"
    /\ exists
    /\ new_result.kind = "Ok"
    /\ current = 0
    /\ id # 0

\* ------------------------------------------------------------------ C15
\* C15: a Reload first prints the note naming the two stored paths (and has
\* printed it also when it then fails), then reads the vertex file, then the
\* fragment file, then makes the driver calls of the build, and stores the
\* new handle last, once the build has returned Ok. The stored paths are
\* those given to Construct and no step changes them afterwards.
C15_ReloadOrder ==
    /\ [](op = "reload" =>
            /\ Len(calls) >= 1
            /\ calls[1] = Ev2("println", vertex_filename, fragment_filename)
            /\ Len(calls) >= 2 =>
                  (calls[2].call = "read_from_file"
                   /\ calls[2].s = vertex_filename)
            /\ Len(calls) >= 3 =>
                  (calls[3].call = "read_from_file"
                   /\ calls[3].s = fragment_filename
                   /\ calls[2].t # "unreadable")
            /\ \A d \in DriverCalls : d > 3 /\ calls[3].t # "unreadable"
            /\ id # old_id => (pc = "idle" /\ result = Ok(id)))
    /\ [][(op' = "reload" /\ id' # id)
            => (pc = "ret" /\ result.kind = "Ok" /\ calls' = calls)]_vars
    /\ [][(~exists /\ exists')
            => (vertex_filename' = arg_v /\ fragment_filename' = arg_f)]_vars
    /\ [][exists => UNCHANGED <<vertex_filename, fragment_filename>>]_vars

\* A reload that printed its note and then failed at the vertex compile.
C15_Witness ==
    /\ op = "reload"
    /\ pc = "crashed"
    /\ CompileFailed("VERTEX")
    /\ calls[1].call = "println"
    /\ calls[1].s = vertex_filename
    /\ calls[3].s = fragment_filename

\* ------------------------------------------------------------------ C16
\* Positions of the status queries of the operation in progress, and whether
\* the driver stored TRUE for the query at position i (it stores nothing for
\* the name 0).
StatusQueries ==
    {i \in 1..Len(calls) : calls[i].call \in {"GetShaderiv", "GetProgramiv"}}

ReportedTrue(i) ==
    /\ calls[i].h # 0
    /\ IF calls[i].call = "GetShaderiv"
       THEN shaders[calls[i].h].status = GL_TRUE
       ELSE programs[calls[i].h].status = GL_TRUE

\* The code took the failure branch after the query at position i: it went
\* on to fetch the diagnostic log.
TookFailureBranch(i) ==
    /\ i < Len(calls)
    /\ calls[i + 1].call \in {"GetShaderInfoLog", "GetProgramInfoLog"}
    /\ calls[i + 1].h = calls[i].h

\* C16: a compile or link step succeeds exactly when the status the driver
\* stored is TRUE. For FALSE, for any other value and when the driver stored
\* nothing, the step takes its failure branch and the operation yields no
\* handle: it ends in an error value or in a panic.
C16_SuccessIffStatusTrue ==
    \A i \in StatusQueries :
        /\ ReportedTrue(i) <=> ~TookFailureBranch(i)
        /\ ~ReportedTrue(i) =>
              /\ result.kind \in {"Err", "None"}
              /\ result.kind = "Err" <=> ~LogUndecodable
              /\ pc \in {"ret", "crashed", "idle"}
              /\ pc = "idle" => (op = "new" /\ ~exists)
        /\ ReportedTrue(i) =>
              CASE calls[i].s = "VERTEX" -> vertex_shader = calls[i].h
                [] calls[i].s = "FRAGMENT" -> fragment_shader = calls[i].h
                [] OTHER -> /\ shader_program = calls[i].h
                            /\ pc \in {"cleanup", "ret", "idle"}

\* A stage for which the driver stored a status that is neither TRUE nor
\* FALSE was treated as a failure.
C16_Witness ==
    \E i \in StatusQueries :
        /\ calls[i].call = "GetShaderiv"
        /\ calls[i].h # 0
        /\ shaders[calls[i].h].status \notin {GL_TRUE, GL_FALSE}
        /\ result.kind = "Err"

\* ------------------------------------------------------------------ C17
\* C17: when a compile or link step fails and the bytes of the diagnostic
\* buffer are not valid text, the process terminates and no error value is
\* returned, in Construct as in Reload: Construct then returns neither a
\* build error nor a ShaderProgram.
C17_UndecodableLogIsFatal ==
    LogUndecodable =>
        /\ RebuildFailed
        /\ pc = "crashed"
        /\ result = None
        /\ op = "new" => (new_result = None /\ ~exists)
        /\ op = "reload" => id = old_id

\* Construct stopped on a link failure whose log did not decode.
C17_Witness ==
    /\ op = "new"
    /\ pc = "crashed"
    /\ LinkFailed
    /\ LogUndecodable
    /\ new_result = None

\* ------------------------------------------------------------------ C18
\* Program objects the driver created for the operation in progress.
CreatedPrograms ==
    {calls[i].h : i \in CallsOf("CreateProgram", shader_program)} \ {0}

\* C18: no step deletes or alters a program object the driver holds. The
\* program object a build creates for its link step stays allocated, also
\* when the link fails and when a later Reload replaces the stored handle;
\* each build whose create-program call yields an object adds exactly one.
\* After Construct and n successful Reloads the driver therefore holds n+1
\* program objects, of which exactly one is the stored handle.
C18_ProgramsNeverDeleted ==
    /\ [][\A h \in DOMAIN programs :
            h \in DOMAIN programs' /\ programs'[h] = programs[h]]_vars
    /\ [][Cardinality(DOMAIN programs') <= Cardinality(DOMAIN programs) + 1]_vars
    /\ [](CreatedPrograms \subseteq DOMAIN programs)
    /\ []((Called("LinkProgram") /\ shader_program # 0)
            => (CreatedPrograms = {shader_program}
                /\ Cardinality(DOMAIN programs) = builds))
    /\ []((exists /\ pc = "idle")
            => (/\ Cardinality(DOMAIN programs) = builds
                /\ Cardinality({h \in DOMAIN programs : h = id}) = 1
                /\ Cardinality({h \in DOMAIN programs : h # id}) = builds - 1))

\* The second reload failed at its link: the driver holds the two programs
\* of the earlier builds and the one whose link failed.
C18_Witness ==
    /\ op = "reload"
    /\ pc = "crashed"
    /\ builds = 3
    /\ LinkFailed
    /\ shader_program \in DOMAIN programs
    /\ Cardinality(DOMAIN programs) = 3

\* ------------------------------------------------------------------ C19
\* Shader stages the driver created for the operation in progress that have
\* not been deleted.
AllocatedStages ==
    {h \in {calls[i].h : i \in {j \in 1..Len(calls) :
                                     calls[j].call = "CreateShader"}} :
        h # 0 /\ ~shaders[h].deleted}

\* C19: a shader stage whose compilation failed is never deleted. A build
\* that returns because its fragment stage failed to compile leaves that
\* stage and the compiled vertex stage allocated, two stage objects, and has
\* created no program object; a build that returns because its vertex stage
\* failed to compile leaves that one stage allocated.
C19_FailedCompileLeaksStages ==
    /\ \A h \in DOMAIN shaders :
          shaders[h].status # GL_TRUE => ~shaders[h].deleted
    /\ (BuildReturned /\ CompileFailed("VERTEX") /\ StageName("VERTEX") # 0)
        => /\ AllocatedStages = {StageName("VERTEX")}
           /\ ~Called("CreateProgram")
    /\ (BuildReturned /\ Compiled("VERTEX") /\ CompileFailed("FRAGMENT"))
        => /\ StageName("VERTEX") \in AllocatedStages
           /\ ~Called("DeleteShader")
           /\ ~Called("CreateProgram")
           /\ Cardinality(DOMAIN programs) = builds - 1
           /\ StageName("FRAGMENT") # 0 =>
                 /\ AllocatedStages = {StageName("VERTEX"), StageName("FRAGMENT")}
                 /\ Cardinality(AllocatedStages) = 2

\* A build has returned the fragment stage's error with both stages left in
\* the driver.
C19_Witness ==
    /\ BuildReturned
    /\ Compiled("VERTEX")
    /\ CompileFailed("FRAGMENT")
    /\ Cardinality(AllocatedStages) = 2
    /\ DOMAIN programs = {}

\* ------------------------------------------------------------------ C20
\* C20: no step of a Reload changes the driver's current program; only
\* Activate and Deactivate do. After a successful Reload the current program
\* is what it was before: the old handle if the program was current (and so
\* different from the stored handle), nothing if nothing was. The current
\* program equals the stored handle again only once Activate has run.
C20_ReloadKeepsBinding ==
    /\ [][op' = "reload" => current' = current]_vars
    /\ [][current' # current => op' \in {"activate", "deactivate"}]_vars
    /\ []((op = "reload" /\ pc = "idle")
            => (current # id /\ (current = 0 \/ LinkedProgram(current))))
    /\ []((op = "reload" /\ current # 0 /\ current # old_id)
            => (current # id /\ LinkedProgram(current)))
    /\ []((exists /\ current = id)
            => (op = "activate" \/ (op = "reload" /\ id = old_id)))

\* A successful reload of a program that was current: the driver still has
\* the old handle bound.
C20_Witness ==
    /\ op = "reload"
    /\ pc = "idle"
    /\ result.kind = "Ok"
    /\ current = old_id
    /\ current # 0
    /\ current # id

====
